---- MODULE Spec2Model ----
(***************************************************************************)
(* The Subscriber document of pyfastocloud_models/subscriber/entry.py:     *)
(* its embedded device and stream lists, its server references, its status *)
(* and the methods that change them, together with the two collections the *)
(* methods write to: 'subscribers' (where save() stores the document) and  *)
(* the IStream collection (where owned stream entities are deleted).       *)
(*                                                                         *)
(* References are compared by the id of the entity they point to, as       *)
(* EmbeddedDocumentList.filter(sid=...) does for reference fields.         *)
(***************************************************************************)
EXTENDS Integers, Sequences, FiniteSets, TLC

\* ---------------------------------------------------------------- bounds
\* Number of IStream entities that exist when the subscriber is constructed.
NumStreams == 2
\* Largest max_devices_count a subscriber is constructed with.
MaxQuota == 2
\* add_server has no guard of its own: calls are cut off at this length.
MaxServers == 2

StreamIds == 1..NumStreams
\* The ids of the Device values handed to add_device and remove_device (the
\* methods read a device's id only in remove_device's filter).
DeviceIds == {1, 2}
ServerIds == {1}
\* did and lb_server_host_and_port arguments of generate_playlist
DeviceStrs == {"dev1"}
LbAddresses == {"lb:8000"}
\* password argument of make_subscriber
Passwords == {"secret"}
\* Two distinct passwords of 72 letters and digits with the same md5 digest.
CollisionA == "TEXTCOLLBYfGiJUETHQ4hAcKSMd5zYpgqf1YRDhkmxHkhPWptrkoyz28wnI9V0aHeAuaKnak"
CollisionB == "TEXTCOLLBYfGiJUETHQ4hEcKSMd5zYpgqf1YRDhkmxHkhPWptrkoyz28wnI9V0aHeAuaKnak"
\* password arguments of the hashing methods
HashPasswords == {"", "a", "b", "secret", CollisionA, CollisionB}

\* ------------------------------------------------------ program constants
\* Subscriber.Status
NOT_ACTIVE == 0
ACTIVE == 1
DELETED == 2

\* Python's None for a stream lookup that finds nothing / an unsaved id.
NoStream == 0
NoId == 0
\* The ObjectId the store gives the document on its first save.
SubscriberOid == 1

EXTM3U == "#EXTM3U\n"

VARIABLES
    id,                 \* Subscriber.id: NoId until the first save()
    password,           \* Subscriber.password (the stored hash)
    status,             \* Subscriber.status
    servers,            \* Subscriber.servers: sequence of server ids
    devices,            \* Subscriber.devices: sequence of Device
    max_devices_count,  \* Subscriber.max_devices_count
    streams,            \* Subscriber.streams: sequence of UserStream
    db,                 \* the 'subscribers' collection: the saved documents
    istreams,           \* the IStream collection: ids of the stream entities
    last,               \* the last completed call: [op, arg, rep]
    ret,                \* what that call returned (<< >> for None)
    callers,            \* add_device calls of other processes, line by line
    removal             \* a remove of own streams under way, line by line

vars == <<id, password, status, servers, devices, max_devices_count, streams,
          db, istreams, last, ret, callers, removal>>

\* No other process is calling add_device.
NoCallers == << >>
\* No remove of own streams is under way.
NoRemoval == [pc |-> "idle", op |-> "none", arg |-> 0, found |-> << >>, todo |-> << >>]

\* Device(id=...): only the id takes part in the subscriber's methods.
Device(i) == [id |-> i]

\* UserStream(sid=...): private defaults to False.
UserStream(s) == [sid |-> s, private |-> FALSE]

\* hashlib.md5(password.encode()).hexdigest() on the passwords of the model.
make_md5_hash_from_password(p) ==
    CASE p = "a" -> "0cc175b9c0f1b6a831c399e269772661"
      [] p = "b" -> "92eb5ffee6ae2fec3ad71c777531578f"
      [] p = "secret" -> "5ebe2294ecd0e0f08eab7690d2a6ee69"
      [] p = CollisionA -> "faad49866e9498fc1719f5289e7a0269"
      [] p = CollisionB -> "faad49866e9498fc1719f5289e7a0269"
      [] OTHER -> "d41d8cd98f00b204e9800998ecf8427e"

generate_password_hash(p) == make_md5_hash_from_password(p)

\* check_password_hash comparing the hash with the password itself.
check_password_hash_raw(hash, p) == hash = p

check_password_hash(hash, p) == hash = generate_password_hash(p)

\* The in-memory document, as save() would write it now.
Self ==
    [password |-> password, status |-> status, servers |-> servers,
     devices |-> devices, max_devices_count |-> max_devices_count,
     streams |-> streams]

\* Document.save() of the document in the in-memory state doc: the
\* collection then holds exactly that document, and an unsaved document
\* gets its id.
save(doc) ==
    /\ db' = {doc}
    /\ id' = IF id = NoId THEN SubscriberOid ELSE id

\* The record of a completed call; rep counts the same call made twice running.
Call(op, arg) ==
    [op |-> op, arg |-> arg,
     rep |-> IF last.op = op /\ last.arg = arg THEN 2 ELSE 1]

\* make_subscriber storing the password as it was given.
make_subscriber_cleartext(p) ==
    /\ id = NoId
    /\ password = p
    /\ status = NOT_ACTIVE
    /\ servers = << >>
    /\ devices = << >>
    /\ streams = << >>

\* Subscriber.make_subscriber(password=p, ...): the state after construction
\* (the fields not passed take their defaults).
make_subscriber(p) ==
    /\ id = NoId
    /\ password = make_md5_hash_from_password(p)
    /\ status = NOT_ACTIVE
    /\ servers = << >>
    /\ devices = << >>
    /\ streams = << >>

\* SubscriberUser.make_subscriber(password=p, ...): the same constructor
\* call without exp_date.
SubscriberUser_make_subscriber(p) ==
    /\ id = NoId
    /\ password = make_md5_hash_from_password(p)
    /\ status = NOT_ACTIVE
    /\ servers = << >>
    /\ devices = << >>
    /\ streams = << >>

\* What surrounds a subscriber that was just constructed: a quota, no saved
\* document, the stream entities.
Constructed ==
    /\ max_devices_count \in 1..MaxQuota
    /\ db = {}
    /\ istreams = StreamIds
    /\ ret = << >>
    /\ callers = NoCallers
    /\ removal = NoRemoval

Init ==
    /\ \E p \in Passwords :
          /\ make_subscriber(p)
          /\ last = [op |-> "make_subscriber", arg |-> p, rep |-> 1]
    /\ Constructed

\* EmbeddedDocumentList.filter(**kwargs): the elements whose fields equal
\* the keyword arguments, in the order of the list.
\* devices.filter(id=sid)
filter_id(list, sid) == SelectSeq(list, LAMBDA d : d.id = sid)
\* streams.filter(sid=stream)
filter_sid(list, stream) == SelectSeq(list, LAMBDA u : u.sid = stream)
\* streams.filter(sid=stream, private=True)
filter_sid_private(list, stream) ==
    SelectSeq(list, LAMBDA u : u.sid = stream /\ u.private)
\* streams.filter(private=True)
filter_private(list) == SelectSeq(list, LAMBDA u : u.private)

\* EmbeddedDocumentList.delete() of a filtered list: every element of found
\* is removed from the list it was filtered from; the rest keep their order.
delete_found(list, found) ==
    SelectSeq(list, LAMBDA x : \A i \in DOMAIN found : found[i] # x)

\* ------------------------------------------------------- server / devices
add_server(server) ==
    /\ servers' = Append(servers, server)
    /\ save([Self EXCEPT !.servers = servers'])
    /\ UNCHANGED <<password, status, devices, max_devices_count, streams, istreams>>

\* add_device with the quota compared by <= instead of <.
add_device_off_by_one(device) ==
    /\ IF Len(devices) <= max_devices_count
          THEN /\ devices' = Append(devices, device)
               /\ save([Self EXCEPT !.devices = devices'])
          ELSE UNCHANGED <<devices, db, id>>
    /\ UNCHANGED <<password, status, servers, max_devices_count, streams, istreams>>

\* add_device with save() after the if instead of inside it.
add_device_saves_always(device) ==
    /\ devices' = IF Len(devices) < max_devices_count
                     THEN Append(devices, device)
                     ELSE devices
    /\ save([Self EXCEPT !.devices = devices'])
    /\ UNCHANGED <<password, status, servers, max_devices_count, streams, istreams>>

add_device(device) ==
    /\ IF Len(devices) < max_devices_count
          THEN /\ devices' = Append(devices, device)
               /\ save([Self EXCEPT !.devices = devices'])
          ELSE UNCHANGED <<devices, db, id>>
    /\ UNCHANGED <<password, status, servers, max_devices_count, streams, istreams>>

\* remove_device that deletes only the first device that matches.
remove_device_first_match(sid) ==
    LET found == filter_id(devices, sid)
        k == IF found = << >> THEN 0
             ELSE CHOOSE i \in DOMAIN devices :
                     /\ devices[i].id = sid
                     /\ \A j \in 1..(i - 1) : devices[j].id # sid
    IN  /\ devices' = [i \in 1..(Len(devices) - (IF k = 0 THEN 0 ELSE 1)) |->
                          IF k = 0 \/ i < k THEN devices[i] ELSE devices[i + 1]]
        /\ save([Self EXCEPT !.devices = devices'])
        /\ UNCHANGED <<password, status, servers, max_devices_count, streams, istreams>>

remove_device(sid) ==
    LET found == filter_id(devices, sid)
    IN  /\ devices' = delete_found(devices, found)
        /\ save([Self EXCEPT !.devices = devices'])
        /\ UNCHANGED <<password, status, servers, max_devices_count, streams, istreams>>

\* ---------------------------------------------------------------- streams
\* IStream.objects(id=sid).first(): the entity, or None when there is none.
first(sid) == IF sid \in istreams THEN sid ELSE NoStream

\* for stream in found: stream.sid.delete()
sids_deleted(found) == istreams \ {found[i].sid : i \in DOMAIN found}

\* add_official_stream without the lookup of an existing association.
add_official_stream_unchecked(stream) ==
    /\ streams' = Append(streams, stream)
    /\ save([Self EXCEPT !.streams = streams'])
    /\ UNCHANGED <<password, status, servers, devices, max_devices_count, istreams>>

add_official_stream(stream) ==
    LET db_stream == stream.sid
        found_streams == filter_sid(streams, db_stream)
    IN  /\ IF found_streams = << >>
              THEN /\ streams' = Append(streams, stream)
                   /\ save([Self EXCEPT !.streams = streams'])
              ELSE UNCHANGED <<streams, db, id>>
        /\ UNCHANGED <<password, status, servers, devices, max_devices_count, istreams>>

add_official_stream_by_id(oid) ==
    LET user_stream == UserStream(oid)
    IN  add_official_stream(user_stream)

\* add_own_stream looking only for an existing private association.
add_own_stream_private_only(stream) ==
    LET user_stream == [UserStream(stream) EXCEPT !.private = TRUE]
        found_streams == filter_sid_private(streams, stream)
    IN  /\ IF found_streams = << >>
              THEN /\ streams' = Append(streams, user_stream)
                   /\ save([Self EXCEPT !.streams = streams'])
              ELSE UNCHANGED <<streams, db, id>>
        /\ UNCHANGED <<password, status, servers, devices, max_devices_count, istreams>>

add_own_stream(stream) ==
    LET user_stream == [UserStream(stream) EXCEPT !.private = TRUE]
        found_streams == filter_sid(streams, stream)
    IN  /\ IF found_streams = << >>
              THEN /\ streams' = Append(streams, user_stream)
                   /\ save([Self EXCEPT !.streams = streams'])
              ELSE UNCHANGED <<streams, db, id>>
        /\ UNCHANGED <<password, status, servers, devices, max_devices_count, istreams>>

\* remove_official_stream that leaves the private associations alone.
remove_official_stream_official_only(stream) ==
    LET found == SelectSeq(streams, LAMBDA u : u.sid = stream /\ ~u.private)
    IN  /\ streams' = delete_found(streams, found)
        /\ save([Self EXCEPT !.streams = streams'])
        /\ UNCHANGED <<password, status, servers, devices, max_devices_count, istreams>>

remove_official_stream(stream) ==
    LET found == filter_sid(streams, stream)
    IN  /\ streams' = delete_found(streams, found)
        /\ save([Self EXCEPT !.streams = streams'])
        /\ UNCHANGED <<password, status, servers, devices, max_devices_count, istreams>>

remove_official_stream_by_id(sid) ==
    LET original_stream == first(sid)
    IN  remove_official_stream(original_stream)

\* remove_own_stream_by_id without the loop that deletes the stream entities.
remove_own_stream_by_id_keeps_entity(sid) ==
    LET stream == first(sid)
        found == filter_sid_private(streams, stream)
    IN  /\ streams' = delete_found(streams, found)
        /\ save([Self EXCEPT !.streams = streams'])
        /\ UNCHANGED <<password, status, servers, devices, max_devices_count, istreams>>

\* remove_own_stream_by_id that filters by sid without private=True.
remove_own_stream_by_id_any_flag(sid) ==
    LET stream == first(sid)
        found == filter_sid(streams, stream)
    IN  /\ istreams' = sids_deleted(found)
        /\ streams' = delete_found(streams, found)
        /\ save([Self EXCEPT !.streams = streams'])
        /\ UNCHANGED <<password, status, servers, devices, max_devices_count>>

remove_own_stream_by_id(sid) ==
    LET stream == first(sid)
        found == filter_sid_private(streams, stream)
    IN  /\ istreams' = sids_deleted(found)
        /\ streams' = delete_found(streams, found)
        /\ save([Self EXCEPT !.streams = streams'])
        /\ UNCHANGED <<password, status, servers, devices, max_devices_count>>

\* The body of remove_all_own_streams: what it does to the stream list and
\* to the two collections (delete() goes on from here).
own_streams_removed ==
    LET found == filter_private(streams)
    IN  /\ istreams' = sids_deleted(found)
        /\ streams' = delete_found(streams, found)
        /\ save([Self EXCEPT !.streams = streams'])

remove_all_own_streams ==
    /\ own_streams_removed
    /\ UNCHANGED <<password, status, servers, devices, max_devices_count>>

\* delete() with the commented-out Document.delete() put back: the document
\* leaves the collection.
delete_removes_document ==
    LET found == filter_private(streams)
    IN  /\ istreams' = sids_deleted(found)
        /\ streams' = delete_found(streams, found)
        /\ status' = DELETED
        /\ db' = {}
        /\ UNCHANGED <<id, password, servers, devices, max_devices_count>>

\* delete() that restores a subscriber already DELETED.
delete_toggles ==
    /\ own_streams_removed
    /\ status' = IF status = DELETED THEN NOT_ACTIVE ELSE DELETED
    /\ UNCHANGED <<password, servers, devices, max_devices_count>>

\* Subscriber.delete(): remove_all_own_streams(), then the status is set in
\* memory; no save() follows (Document.delete is commented out).
delete ==
    /\ own_streams_removed
    /\ status' = DELETED
    /\ UNCHANGED <<password, servers, devices, max_devices_count>>

\* --------------------------------------------------------------- playlist
\* str(self.id)
str(oid) == IF oid = NoId THEN "None" ELSE "oid1"

\* The text stream.sid.generate_playlist(False) contributes: the entry of
\* the stream's own generator.
generate_playlist_entry(sid) ==
    [gen |-> "generate_playlist", sid |-> sid, args |-> <<"False">>]

\* The device-bound entry with did and the load balancer address swapped.
generate_device_playlist_entry_swapped(sid, uid, passwd, did, lb) ==
    [gen |-> "generate_device_playlist", sid |-> sid,
     args |-> <<uid, passwd, lb, did, "False">>]

\* The text stream.sid.generate_device_playlist(uid, passwd, did, lb, False)
\* contributes: the entry of the device-bound generator.
generate_device_playlist_entry(sid, uid, passwd, did, lb) ==
    [gen |-> "generate_device_playlist", sid |-> sid,
     args |-> <<uid, passwd, did, lb, "False">>]

\* result after the loop has run over the first n streams
RECURSIVE playlist_upto(_, _, _)
playlist_upto(n, did, lb_server_host_and_port) ==
    IF n = 0
       THEN <<EXTM3U>>
       ELSE LET stream == streams[n]
                result == playlist_upto(n - 1, did, lb_server_host_and_port)
            IN  IF stream.private
                   THEN Append(result, generate_playlist_entry(stream.sid))
                   ELSE Append(result,
                               generate_device_playlist_entry(stream.sid, str(id),
                                   password, did, lb_server_host_and_port))

generate_playlist(did, lb_server_host_and_port) ==
    /\ ret' = playlist_upto(Len(streams), did, lb_server_host_and_port)
    /\ UNCHANGED <<id, password, status, servers, devices, max_devices_count,
                   streams, db, istreams>>

\* ------------------------------------------------------------------ calls
\* A completed call of a method that returns None.
Done(op, arg) ==
    /\ last' = Call(op, arg)
    /\ ret' = << >>
    /\ UNCHANGED <<callers, removal>>

Next ==
    \/ \E s \in ServerIds :
          Len(servers) < MaxServers /\ add_server(s) /\ Done("add_server", s)
    \/ \E d \in DeviceIds : add_device(Device(d)) /\ Done("add_device", d)
    \/ \E d \in DeviceIds : remove_device(d) /\ Done("remove_device", d)
    \/ \E s \in istreams :
          add_official_stream_by_id(s) /\ Done("add_official_stream", s)
    \/ \E s \in istreams : add_own_stream(s) /\ Done("add_own_stream", s)
    \/ \E s \in StreamIds :
          remove_official_stream_by_id(s) /\ Done("remove_official_stream", s)
    \/ \E s \in StreamIds :
          remove_own_stream_by_id(s) /\ Done("remove_own_stream_by_id", s)
    \/ remove_all_own_streams /\ Done("remove_all_own_streams", 0)
    \/ delete /\ Done("delete", 0)
    \/ \E did \in DeviceStrs, lb \in LbAddresses :
          /\ generate_playlist(did, lb)
          /\ last' = Call("generate_playlist", <<did, lb>>)
          /\ UNCHANGED <<callers, removal>>

Spec == Init /\ [][Next]_vars

\* --------------------------------------------------------------- passwords
\* A subscriber made by either factory, and calls of the static hashing
\* methods on it.
InitPassword ==
    /\ \E p \in HashPasswords :
          \/ /\ make_subscriber(p)
             /\ last = [op |-> "make_subscriber", arg |-> p, rep |-> 1]
          \/ /\ SubscriberUser_make_subscriber(p)
             /\ last = [op |-> "SubscriberUser.make_subscriber", arg |-> p,
                        rep |-> 1]
    /\ Constructed

\* Subscriber.generate_password_hash(p), called
call_generate_password_hash(p) ==
    /\ ret' = <<generate_password_hash(p)>>
    /\ last' = Call("generate_password_hash", p)
    /\ UNCHANGED <<id, password, status, servers, devices, max_devices_count,
                   streams, db, istreams, callers, removal>>

\* Subscriber.check_password_hash(Subscriber.generate_password_hash(p1), p2),
\* called
call_check_password_hash(p1, p2) ==
    /\ ret' = <<check_password_hash(generate_password_hash(p1), p2)>>
    /\ last' = Call("check_password_hash", <<p1, p2>>)
    /\ UNCHANGED <<id, password, status, servers, devices, max_devices_count,
                   streams, db, istreams, callers, removal>>

NextPassword ==
    \/ \E p \in HashPasswords : call_generate_password_hash(p)
    \/ \E p1 \in HashPasswords, p2 \in HashPasswords :
          call_check_password_hash(p1, p2)

SpecPassword == InitPassword /\ [][NextPassword]_vars

\* ------------------------------------------------- concurrent add_device
\* Two processes, each with its own Subscriber object loaded from the
\* collection, run add_device one line at a time.
CallerIds == {1, 2}

\* A subscriber that was saved with n devices, n within the quota, before
\* the callers start.
InitRace ==
    /\ id = SubscriberOid
    /\ \E p \in Passwords : password = make_md5_hash_from_password(p)
    /\ status = NOT_ACTIVE
    /\ servers = << >>
    /\ streams = << >>
    /\ max_devices_count \in 1..MaxQuota
    /\ \E n \in 0..max_devices_count : devices = [i \in 1..n |-> Device(i)]
    /\ db = {Self}
    /\ istreams = StreamIds
    /\ last = [op |-> "save", arg |-> 0, rep |-> 1]
    /\ ret = << >>
    /\ callers = [c \in CallerIds |->
                     [pc |-> "start", self |-> Self, device |-> Device(0),
                      seen |-> 0, passed |-> FALSE]]
    /\ removal = NoRemoval

RaceFrame ==
    UNCHANGED <<password, status, servers, devices, max_devices_count, streams,
                istreams, last, ret, removal>>

\* Caller c loads the subscriber and is handed the device to add.
caller_load(c, device) ==
    /\ callers[c].pc = "start"
    /\ \E doc \in db :
          callers' = [callers EXCEPT ![c] =
                         [pc |-> "check", self |-> doc, device |-> device,
                          seen |-> Len(doc.devices), passed |-> FALSE]]
    /\ UNCHANGED <<db, id>>
    /\ RaceFrame

\* The quota test of a caller that reloads the document before it tests.
caller_check_reloads(c) ==
    /\ callers[c].pc = "check"
    /\ \E doc \in db :
          callers' = [callers EXCEPT
                         ![c].self = doc,
                         ![c].passed = Len(doc.devices) < doc.max_devices_count,
                         ![c].pc = IF Len(doc.devices) < doc.max_devices_count
                                      THEN "append" ELSE "done"]
    /\ UNCHANGED <<db, id>>
    /\ RaceFrame

\* if len(self.devices) < self.max_devices_count, on the caller's object
caller_check(c) ==
    /\ callers[c].pc = "check"
    /\ LET self == callers[c].self
           ok == Len(self.devices) < self.max_devices_count
       IN  callers' = [callers EXCEPT ![c].passed = ok,
                                      ![c].pc = IF ok THEN "append" ELSE "done"]
    /\ UNCHANGED <<db, id>>
    /\ RaceFrame

\* self.devices.append(device), on the caller's object
caller_append(c) ==
    /\ callers[c].pc = "append"
    /\ callers' = [callers EXCEPT
                      ![c].self.devices = Append(@, callers[c].device),
                      ![c].pc = "save"]
    /\ UNCHANGED <<db, id>>
    /\ RaceFrame

\* self.save(), of the caller's object
caller_save(c) ==
    /\ callers[c].pc = "save"
    /\ save(callers[c].self)
    /\ callers' = [callers EXCEPT ![c].pc = "done"]
    /\ RaceFrame

NextRace ==
    \/ \E c \in CallerIds, d \in DeviceIds : caller_load(c, Device(10 * c + d))
    \/ \E c \in CallerIds : caller_check(c)
    \/ \E c \in CallerIds : caller_append(c)
    \/ \E c \in CallerIds : caller_save(c)

SpecRace == InitRace /\ [][NextRace]_vars

\* ------------------------------------------- removing own streams by line
\* remove_own_stream_by_id and remove_all_own_streams run one line at a
\* time, and the process may die between two lines. What a dead process
\* leaves is the two collections; its object is gone.
RemovalFrame ==
    UNCHANGED <<password, status, servers, devices, max_devices_count,
                callers>>

\* remove_own_stream_by_id that deletes the associations and saves before
\* it deletes the entities.
begin_remove_own_stream_by_id_save_first(sid) ==
    /\ removal.pc = "idle"
    /\ LET stream == first(sid)
           found == filter_sid_private(streams, stream)
       IN  /\ removal' = [pc |-> "loop", op |-> "remove_own_stream_by_id",
                          arg |-> sid, found |-> found, todo |-> found]
           /\ streams' = delete_found(streams, found)
           /\ save([Self EXCEPT !.streams = streams'])
    /\ UNCHANGED <<istreams, last, ret>>
    /\ RemovalFrame

\* stream = IStream.objects(id=sid).first()
\* streams = self.streams.filter(sid=stream, private=True)
begin_remove_own_stream_by_id(sid) ==
    /\ removal.pc = "idle"
    /\ LET stream == first(sid)
           found == filter_sid_private(streams, stream)
       IN  removal' = [pc |-> "loop", op |-> "remove_own_stream_by_id",
                       arg |-> sid, found |-> found, todo |-> found]
    /\ UNCHANGED <<streams, db, id, istreams, last, ret>>
    /\ RemovalFrame

\* streams = self.streams.filter(private=True)
begin_remove_all_own_streams ==
    /\ removal.pc = "idle"
    /\ LET found == filter_private(streams)
       IN  removal' = [pc |-> "loop", op |-> "remove_all_own_streams",
                       arg |-> 0, found |-> found, todo |-> found]
    /\ UNCHANGED <<streams, db, id, istreams, last, ret>>
    /\ RemovalFrame

\* for stream in streams: stream.sid.delete()  (one turn of the loop)
delete_entity ==
    /\ removal.pc = "loop"
    /\ removal.todo # << >>
    /\ istreams' = istreams \ {Head(removal.todo).sid}
    /\ removal' = [removal EXCEPT !.todo = Tail(@)]
    /\ UNCHANGED <<streams, db, id, last, ret>>
    /\ RemovalFrame

\* streams.delete(), once the loop has ended
delete_associations ==
    /\ removal.pc = "loop"
    /\ removal.todo = << >>
    /\ streams' = delete_found(streams, removal.found)
    /\ removal' = [removal EXCEPT !.pc = "save"]
    /\ UNCHANGED <<db, id, istreams, last, ret>>
    /\ RemovalFrame

\* self.streams.save(), and the method returns
save_streams ==
    /\ removal.pc = "save"
    /\ save(Self)
    /\ removal' = NoRemoval
    /\ last' = Call(removal.op, removal.arg)
    /\ ret' = << >>
    /\ UNCHANGED <<streams, istreams>>
    /\ RemovalFrame

\* The process dies inside the method.
crash ==
    /\ removal.pc \in {"loop", "save"}
    /\ removal' = [removal EXCEPT !.pc = "crashed"]
    /\ UNCHANGED <<streams, db, id, istreams, last, ret>>
    /\ RemovalFrame

NextCrash ==
    \/ \E s \in istreams :
          /\ removal.pc = "idle"
          /\ add_official_stream_by_id(s)
          /\ Done("add_official_stream", s)
    \/ \E s \in istreams :
          removal.pc = "idle" /\ add_own_stream(s) /\ Done("add_own_stream", s)
    \/ \E s \in StreamIds : begin_remove_own_stream_by_id(s)
    \/ begin_remove_all_own_streams
    \/ delete_entity
    \/ delete_associations
    \/ save_streams
    \/ crash

SpecCrash == Init /\ [][NextCrash]_vars

\* ----------------------------------------------------------------- claims
\* The positions in list of the associations that reference stream s.
Refs(list, s) == {i \in DOMAIN list : list[i].sid = s}
\* The positions in list of the private associations that reference s.
PrivateRefs(list, s) == {i \in DOMAIN list : list[i].sid = s /\ list[i].private}

\* C1: after every add_device call the subscriber holds at most
\* max_devices_count devices.
C1_DeviceQuota ==
    last.op = "add_device" => Len(devices) <= max_devices_count

\* An add_device call has filled the last free slot of a quota of MaxQuota.
C1_Witness ==
    /\ last.op = "add_device"
    /\ max_devices_count = MaxQuota
    /\ Len(devices) = max_devices_count
    /\ devices[Len(devices)].id = last.arg
    /\ last.rep = 1

\* C2: add_device(d) appends d as the last device and saves the document
\* iff there were fewer than max_devices_count devices; otherwise the
\* devices, streams, servers and status in memory and the saved document
\* stay as they were.
C2_AddDevice ==
    [][\A d \in DeviceIds :
          (last'.op = "add_device" /\ last'.arg = d) =>
             IF Len(devices) < max_devices_count
                THEN /\ devices' = Append(devices, Device(d))
                     /\ db' = {Self'}
                ELSE UNCHANGED <<devices, streams, servers, status, db>>]_vars

\* With max_devices_count = 2 two devices were accepted and the add of a
\* device that is not the last one of the list was rejected.
C2_Witness ==
    /\ max_devices_count = 2
    /\ Len(devices) = 2
    /\ last.op = "add_device"
    /\ devices[2].id # last.arg

\* C3: the streams never hold two associations with the same stream
\* reference, also when a stream is added as official and as own.
C3_UniqueStreamRefs ==
    \A i, j \in DOMAIN streams : i # j => streams[i].sid # streams[j].sid

\* add_own_stream was called for a stream that is held as official.
C3_Witness ==
    /\ last.op = "add_own_stream"
    /\ \E i \in Refs(streams, last.arg) : ~streams[i].private
    /\ Len(streams) = NumStreams

\* C4: add_official_stream and add_own_stream called a second time running
\* with the same stream leave exactly one association that references it
\* and change nothing.
C4_AddIdempotent ==
    [][\A s \in StreamIds :
          ( /\ last.op \in {"add_official_stream", "add_own_stream"}
            /\ last.arg = s
            /\ last'.op = last.op
            /\ last'.arg = s ) =>
             /\ Cardinality(Refs(streams', s)) = 1
             /\ UNCHANGED <<id, password, status, servers, devices,
                            max_devices_count, streams, db, istreams>>]_vars

\* The same add was called twice running and one association references
\* its stream.
C4_Witness ==
    /\ last.op \in {"add_official_stream", "add_own_stream"}
    /\ last.rep = 2
    /\ Cardinality(Refs(streams, last.arg)) = 1

\* C5: after remove_own_stream_by_id(s) no private association references
\* s, the entity that backed such an association is gone from the stream
\* collection, and the official associations and those of other streams are
\* as before, in their order.
C5_RemoveOwnStream ==
    [][\A s \in StreamIds :
          (last'.op = "remove_own_stream_by_id" /\ last'.arg = s) =>
             /\ PrivateRefs(streams', s) = {}
             /\ (PrivateRefs(streams, s) # {} => s \notin istreams')
             /\ streams' = SelectSeq(streams,
                               LAMBDA u : ~(u.sid = s /\ u.private))]_vars

\* remove_own_stream_by_id removed an owned stream and its entity while an
\* official association stayed.
C5_Witness ==
    /\ last.op = "remove_own_stream_by_id"
    /\ last.rep = 1
    /\ last.arg \notin istreams
    /\ Refs(streams, last.arg) = {}
    /\ \E i \in DOMAIN streams : ~streams[i].private

\* The methods that change the subscriber.
MutatingOps ==
    {"add_server", "add_device", "remove_device", "add_official_stream",
     "add_own_stream", "remove_official_stream", "remove_own_stream_by_id",
     "remove_all_own_streams", "delete"}

\* C6: an owned stream entity is deleted when its association is removed:
\* whenever a call takes the private association of a stream out of the
\* streams, the entity of that stream is gone from the stream collection.
C6_OwnedEntityDeletedWithAssociation ==
    [][\A s \in StreamIds :
          (PrivateRefs(streams, s) # {} /\ PrivateRefs(streams', s) = {}) =>
             s \notin istreams']_vars

\* C7: after every completed mutating call the saved document equals the
\* subscriber in memory in devices, streams, servers and status.
C7_PersistedEqualsMemory ==
    last.op \in MutatingOps =>
       /\ db # {}
       /\ \A doc \in db :
             /\ doc.devices = devices
             /\ doc.streams = streams
             /\ doc.servers = servers
             /\ doc.status = status

\* C8: delete() removes every private association and the entity behind
\* each, sets the status to DELETED, and leaves the document in its
\* collection, the official associations in their order, the devices,
\* max_devices_count and the servers as they were.
C8_Delete ==
    [][last'.op = "delete" =>
          /\ streams' = SelectSeq(streams, LAMBDA u : ~u.private)
          /\ \A i \in DOMAIN streams :
                streams[i].private => streams[i].sid \notin istreams'
          /\ status' = DELETED
          /\ db' # {}
          /\ UNCHANGED <<devices, max_devices_count, servers>>]_vars

\* delete() ran on a subscriber that had an owned stream, and an official
\* association, a device and a server are still attached.
C8_Witness ==
    /\ last.op = "delete"
    /\ status = DELETED
    /\ istreams # StreamIds
    /\ streams # << >>
    /\ devices # << >>
    /\ servers # << >>

\* C9: no call changes the status of a subscriber that is DELETED.
C9_DeletedIsTerminal ==
    [][status = DELETED => status' = DELETED]_vars

\* A deleted subscriber was deleted once more and is still DELETED, in
\* memory and in the saved document.
C9_Witness ==
    /\ status = DELETED
    /\ last.op = "delete"
    /\ last.rep = 2
    /\ \A doc \in db : doc.status = DELETED
    /\ db # {}

\* C10: generate_playlist(did, lb) returns the header followed by one
\* entry per association in the order of the streams, the stream's own
\* entry for a private association and the device-bound entry with
\* (subscriber id, password hash, did, lb) for the others, and changes no
\* state of the subscriber.
C10_GeneratePlaylist ==
    [][\A did \in DeviceStrs, lb \in LbAddresses :
          (last'.op = "generate_playlist" /\ last'.arg = <<did, lb>>) =>
             /\ ret'[1] = EXTM3U
             /\ Len(ret') = Len(streams) + 1
             /\ \A i \in DOMAIN streams :
                   /\ ret'[i + 1].sid = streams[i].sid
                   /\ ret'[i + 1].gen = IF streams[i].private
                                           THEN "generate_playlist"
                                           ELSE "generate_device_playlist"
                   /\ ret'[i + 1].args = IF streams[i].private
                                            THEN <<"False">>
                                            ELSE <<str(id), password, did, lb, "False">>
             /\ UNCHANGED <<id, password, status, servers, devices,
                            max_devices_count, streams, db, istreams>>]_vars

\* The playlist of an official stream followed by an owned one: the
\* device-bound entry first, the stream's own entry second.
C10_Witness ==
    /\ last.op = "generate_playlist"
    /\ Len(streams) = 2
    /\ ~streams[1].private
    /\ streams[2].private
    /\ Len(ret) = 3
    /\ ret[2].gen = "generate_device_playlist"
    /\ ret[3].gen = "generate_playlist"


\* C11: remove_official_stream(s) removes every association that references
\* s, private or not: afterwards none references s, the associations of the
\* other streams are kept in their order, and no stream entity is deleted.
C11_RemoveOfficialStream ==
    [][\A s \in StreamIds :
          (last'.op = "remove_official_stream" /\ last'.arg = s) =>
             /\ Refs(streams', s) = {}
             /\ streams' = SelectSeq(streams, LAMBDA u : u.sid # s)
             /\ istreams' = istreams]_vars

\* remove_official_stream ran for a stream whose entity exists, no
\* association references it any more and another association is kept.
C11_Witness ==
    /\ last.op = "remove_official_stream"
    /\ last.rep = 1
    /\ last.arg \in istreams
    /\ Refs(streams, last.arg) = {}
    /\ streams # << >>


\* C12: no two devices of the subscriber share an id, whatever add_device
\* and remove_device calls were made.
C12_UniqueDeviceIds ==
    \A i, j \in DOMAIN devices : i # j => devices[i].id # devices[j].id

\* C13: the servers hold each referenced server at most once, whatever
\* add_server calls were made.
C13_UniqueServers ==
    \A i, j \in DOMAIN servers : i # j => servers[i] # servers[j]

\* C14: remove_device(d) deletes every device whose id is d and saves:
\* afterwards no device has that id, the other devices are kept in their
\* order, and streams, servers, status and max_devices_count are unchanged.
C14_RemoveDevice ==
    [][\A d \in DeviceIds :
          (last'.op = "remove_device" /\ last'.arg = d) =>
             /\ \A i \in DOMAIN devices' : devices'[i].id # d
             /\ devices' = SelectSeq(devices, LAMBDA x : x.id # d)
             /\ db' = {Self'}
             /\ UNCHANGED <<streams, servers, status, max_devices_count>>]_vars

\* remove_device ran, no device has its id and another device is kept.
C14_Witness ==
    /\ last.op = "remove_device"
    /\ last.rep = 1
    /\ devices # << >>
    /\ \A i \in DOMAIN devices : devices[i].id # last.arg
    /\ \A doc \in db : doc.devices = devices

\* C19: a remove that matches nothing changes nothing: remove_device with
\* an id no device has, remove_official_stream with a stream no association
\* references, and remove_own_stream_by_id with a stream that no private
\* association references leave devices, streams, status and the stream
\* entities as they were.
C19_RemoveWithoutMatch ==
    [][/\ \A d \in DeviceIds :
             ( /\ last'.op = "remove_device" /\ last'.arg = d
               /\ \A i \in DOMAIN devices : devices[i].id # d ) =>
                UNCHANGED <<devices, streams, status, istreams>>
       /\ \A s \in StreamIds :
             ( /\ last'.op = "remove_official_stream" /\ last'.arg = s
               /\ Refs(streams, s) = {} ) =>
                UNCHANGED <<devices, streams, status, istreams>>
       /\ \A s \in StreamIds :
             ( /\ last'.op = "remove_own_stream_by_id" /\ last'.arg = s
               /\ PrivateRefs(streams, s) = {} ) =>
                UNCHANGED <<devices, streams, status, istreams>>]_vars

\* remove_own_stream_by_id ran for a stream held as official only: the
\* association and the entity are still there.
C19_Witness ==
    /\ last.op = "remove_own_stream_by_id"
    /\ last.arg \in istreams
    /\ \E i \in Refs(streams, last.arg) : ~streams[i].private
    /\ devices # << >>


\* The state a call of a hashing method must leave alone.
SubscriberState ==
    <<id, password, status, servers, devices, max_devices_count, streams, db,
      istreams>>

\* C15 as stated: check_password_hash(generate_password_hash(p1), p2) is true
\* for p1 = p2 and false for every p1 # p2; hashing is deterministic and
\* changes no state.
C15_VerifyOnlyTheSamePassword ==
    [][/\ \A p1 \in HashPasswords, p2 \in HashPasswords :
             (last'.op = "check_password_hash" /\ last'.arg = <<p1, p2>>) =>
                (ret'[1] <=> p1 = p2)
       /\ last'.op \in {"generate_password_hash", "check_password_hash"} =>
             UNCHANGED SubscriberState
       /\ ( /\ last.op = "generate_password_hash"
            /\ last'.op = "generate_password_hash"
            /\ last'.arg = last.arg ) => ret' = ret]_vars

\* C15 as amended: check_password_hash(generate_password_hash(p1), p2) is
\* true for p1 = p2, and for p1 # p2 it is false unless p1 and p2 have the
\* same md5 digest, as CollisionA and CollisionB have; hashing is
\* deterministic and changes no state.
C15_VerifyUpToCollisions ==
    [][/\ \A p1 \in HashPasswords, p2 \in HashPasswords :
             (last'.op = "check_password_hash" /\ last'.arg = <<p1, p2>>) =>
                (ret'[1] <=> (p1 = p2 \/ {p1, p2} = {CollisionA, CollisionB}))
       /\ last'.op \in {"generate_password_hash", "check_password_hash"} =>
             UNCHANGED SubscriberState
       /\ ( /\ last.op = "generate_password_hash"
            /\ last'.op = "generate_password_hash"
            /\ last'.arg = last.arg ) => ret' = ret]_vars

\* The hash of one password of the colliding pair was checked against the
\* other password and the check returned True.
C15_Witness ==
    /\ last.op = "check_password_hash"
    /\ last.arg = <<CollisionA, CollisionB>>
    /\ ret = <<TRUE>>

\* C16: a subscriber made by make_subscriber(password=p) is NOT_ACTIVE,
\* stores the hash of p and not p, so that check_password_hash(password, p)
\* is true, and has no devices and no streams.
C16_MakeSubscriber ==
    last.op \in {"make_subscriber", "SubscriberUser.make_subscriber"} =>
       /\ status = NOT_ACTIVE
       /\ password = generate_password_hash(last.arg)
       /\ password # last.arg
       /\ check_password_hash(password, last.arg)
       /\ devices = << >>
       /\ streams = << >>

\* A subscriber made with the password "secret" holds its md5 digest.
C16_Witness ==
    /\ last.op = "make_subscriber"
    /\ last.arg = "secret"
    /\ password = "5ebe2294ecd0e0f08eab7690d2a6ee69"
    /\ status = NOT_ACTIVE


\* C17: concurrent add_device calls are not serialized: a caller's quota
\* test is decided by the document it loaded, whatever the other caller has
\* appended or saved since, so two callers that both loaded the subscriber
\* with one slot free both pass the test and both save, and the saved
\* document ends with max_devices_count devices, the last saver's.
C17_CallersNotSerialized ==
    /\ \A c \in CallerIds :
          callers[c].pc \in {"append", "save", "done"} =>
             (callers[c].passed <=> callers[c].seen < max_devices_count)
    /\ ( \A c \in CallerIds :
            /\ callers[c].pc = "done"
            /\ callers[c].seen = max_devices_count - 1 ) =>
          /\ \A c \in CallerIds : callers[c].passed
          /\ \A doc \in db :
                /\ Len(doc.devices) = max_devices_count
                /\ \E c \in CallerIds :
                      doc.devices[Len(doc.devices)] = callers[c].device

\* Both callers loaded the subscriber with one slot free, both passed the
\* quota test and both saved: two devices were accepted for one slot.
C17_Witness ==
    /\ \A c \in CallerIds :
          /\ callers[c].pc = "done"
          /\ callers[c].seen = max_devices_count - 1
          /\ callers[c].passed
          /\ callers[c].self.devices[max_devices_count] = callers[c].device
    /\ callers[1].device # callers[2].device
    /\ \A doc \in db : Len(doc.devices) = max_devices_count


\* The associations of the saved document.
SavedStreams == UNION {{doc.streams[i] : i \in DOMAIN doc.streams} : doc \in db}
\* The associations the remove under way has matched.
Matched == {removal.found[i] : i \in DOMAIN removal.found}
\* A saved association whose stream entity is deleted.
Dangling == \E u \in SavedStreams : u.sid \notin istreams
\* A matched association that is gone from the saved document while its
\* stream entity is still there.
Orphaned == \E u \in Matched : u \notin SavedStreams /\ u.sid \in istreams

====
